---- MODULE Spec2Model ----
(***************************************************************************)
(* Model of xboxgp_esde_sync.py: the reconciliation pass main() driven by *)
(* SyncWorker.run, its concurrent process_entry tasks, the sequential     *)
(* video stage, gamelist generation and the pruning sweep.                *)
(***************************************************************************)
EXTENDS Integers, Sequences, FiniteSets, TLC

(* ---------------- bounds of the model ---------------- *)
MaxRecords == 2
MaxPasses == 2
MaxFan == 22
MaxTotal == 5
MaxImages == 3

(* ---------------- values ---------------- *)
NoUrl == "none"
Url200 == "u200"
Url404 == "u404"
DashOk == "dOk"
DashFail == "dFail"
NullTitle == << "None" >>

Lower == << "a", "b", "c", "d", "e", "f", "g", "h", "i", "j", "k", "l", "m",
            "n", "o", "p", "q", "r", "s", "t", "u", "v", "w", "x", "y", "z" >>
Upper == << "A", "B", "C", "D", "E", "F", "G", "H", "I", "J", "K", "L", "M",
            "N", "O", "P", "Q", "R", "S", "T", "U", "V", "W", "X", "Y", "Z" >>
Digits == { "0", "1", "2", "3", "4", "5", "6", "7", "8", "9" }

Range(s) == { s[i] : i \in DOMAIN s }

IsAlnum(c) == c \in Range(Lower) \cup Range(Upper) \cup Digits

UpperChar(c) ==
  IF c \in Range(Lower)
  THEN Upper[CHOOSE i \in DOMAIN Lower : Lower[i] = c]
  ELSE c

(* re.sub(r"[^a-zA-Z0-9]", "", product_title).upper() *)
Sanitize(title) ==
  LET kept == SelectSeq(title, IsAlnum)
  IN [i \in DOMAIN kept |-> UpperChar(kept[i])]

(* ---------------- the catalog, as extracted by save_additional_data_to_json ---------------- *)
Rec(t, l, p, h, d) ==
  [ProductTitle |-> t, Logo |-> l, Poster |-> p, TitledHeroArt |-> h, DASH |-> d]

RecordPool ==
  { Rec(<< "a" >>, Url200, Url200, Url200, DashOk),
    Rec(<< "A", "!" >>, NoUrl, Url200, NoUrl, NoUrl),
    Rec(<< "b" >>, Url404, NoUrl, Url200, DashFail),
    Rec(<< >>, NoUrl, NoUrl, NoUrl, NoUrl),
    Rec(NullTitle, Url200, NoUrl, NoUrl, NoUrl) }

SeqsUpTo(S, n) == UNION { [1..k -> S] : k \in 0..n }

Catalogs == SeqsUpTo(RecordPool, MaxRecords)

Without(c, i) == SubSeq(c, 1, i - 1) \o SubSeq(c, i + 1, Len(c))

(* what the remote catalog may be at the next pass: unchanged, one title gone,
   or one title more *)
NextCatalogs(c) ==
  { c } \cup { Without(c, i) : i \in DOMAIN c }
        \cup { Append(c, r) : r \in { q \in RecordPool : Len(c) < MaxRecords } }

(* ---------------- the local file system ---------------- *)
Dirs == { "output_dir", "marquee_dir", "cover_dir", "fanart_dir", "video_dir" }

(* PrunedDirs with a sweep of video_dir added *)
PrunedDirsWithVideos ==
  { "output_dir", "marquee_dir", "cover_dir", "fanart_dir", "video_dir" }

(* the directories the sweep of lines 294-326 goes through *)
PrunedDirs == { "output_dir", "marquee_dir", "cover_dir", "fanart_dir" }

ExtOf(dir) ==
  CASE dir = "output_dir" -> "sh"
    [] dir = "video_dir" -> "mp4"
    [] OTHER -> "png"

CounterOf(dir) ==
  CASE dir = "output_dir" -> "sh"
    [] dir = "marquee_dir" -> "logo"
    [] dir = "cover_dir" -> "poster"
    [] dir = "fanart_dir" -> "fanart"
    [] OTHER -> "video"

OrphanKey == << "C" >>

DiskKeys ==
  { Sanitize(r.ProductTitle) : r \in { q \in RecordPool : q.ProductTitle # NullTitle } }
    \cup { OrphanKey }

(* PathOf with a file name that does not depend on the key *)
PathOfAnyKey(dir, key) == << dir, OrphanKey, ExtOf(dir) >>

(* os.path.join(dir, f"{sanitized_title}.sh"), ...png, ...mp4 *)
PathOf(dir, key) == << dir, key, ExtOf(dir) >>

ForeignFiles == { << "output_dir", OrphanKey, "txt" >>, << "marquee_dir", OrphanKey, "jpg" >> }

Paths == { PathOf(d, k) : d \in Dirs, k \in DiskKeys } \cup ForeignFiles

Content == { "none", "empty", "partial", "full" }

EmptyDisk == [p \in Paths |-> "none"]

OrphanDisk ==
  [p \in Paths |-> IF p[2] = OrphanKey THEN "full" ELSE "none"]

Exists(d, p) == d[p] # "none"

(* ---------------- state ---------------- *)
VARIABLES
  pass,           \* number of passes started by SyncWorker.run
  pc,             \* where main() stands
  cat,            \* the remote catalog, as the details endpoint answers in this pass
  payload,        \* the records held by additional_data.json
  cacheAge,       \* hours since additional_data.json was written, -1 when it is missing
  fetches,        \* remote catalog requests made in this pass
  fetchFailed,    \* a catalog request of this pass failed
  data,           \* the records main() loaded from additional_data.json
  dirs,           \* the directories that exist
  disk,           \* content of every file path
  gamelist,       \* gamelist.xml: whether this pass wrote it, and its game records
  valid_titles,
  files_created,
  files_removed,
  error_message,
  tpc,            \* position of every process_entry task
  vidx,           \* index of the video loop
  transcoding,    \* indices of the records whose download_video call is in progress
  progress,       \* values handed to progress_callback, as << numerator, denominator >>
  signal,         \* what SyncWorker.run emitted for this pass
  disk0,          \* the disk when the pass started
  dirs0,          \* the directories when the pass started
  overwritten,    \* paths opened for writing in this pass while a file was there
  prev,           \* catalog and outcome of the previous pass
  fan,            \* the download stage of N one-image records, counted by position
  extract         \* the image loop of save_additional_data_to_json over one product

envVars == << cat, payload, cacheAge, fetches, fetchFailed >>
fsVars == << dirs, disk, gamelist, overwritten >>
countVars == << files_created, files_removed >>
taskVars == << data, valid_titles, tpc >>
videoVars == << vidx, transcoding >>
histVars == << pass, disk0, dirs0, prev >>

vars == << pass, pc, cat, payload, cacheAge, fetches, fetchFailed, data, dirs, disk,
           gamelist, valid_titles, files_created, files_removed, error_message, tpc, vidx,
           transcoding, progress, signal, disk0, dirs0, overwritten, prev, fan, extract >>

NoError == "none"

ZeroCreated == [t \in { "sh", "logo", "poster", "video", "fanart" } |-> 0]
ZeroRemoved == [t \in { "sh", "logo", "poster", "fanart" } |-> 0]

InitDisks == { EmptyDisk, OrphanDisk }

NoFan == [n |-> 0, created |-> 0, inflight |-> 0, settled |-> 0]

(* the image loop before its first iteration: images = {}, titled_hero_found = False *)
ExtractOf(list) == [images |-> list, idx |-> 1, out |-> << >>, found |-> FALSE]

NoExtract == ExtractOf(<< >>)

Init ==
  /\ pass = 0
  /\ pc = "idle"
  /\ cat = << >>
  /\ payload = << >>
  /\ cacheAge = -1
  /\ fetches = 0
  /\ fetchFailed = FALSE
  /\ data = << >>
  /\ disk \in InitDisks
  /\ dirs = IF disk = EmptyDisk THEN { } ELSE Dirs
  /\ gamelist = [written |-> FALSE, games |-> << >>]
  /\ valid_titles = { }
  /\ files_created = ZeroCreated
  /\ files_removed = ZeroRemoved
  /\ error_message = NoError
  /\ tpc = << >>
  /\ vidx = 0
  /\ transcoding = { }
  /\ progress = << >>
  /\ signal = "none"
  /\ disk0 = disk
  /\ dirs0 = dirs
  /\ overwritten = { }
  /\ prev = [ran |-> FALSE, cat |-> << >>, ok |-> FALSE]
  /\ fan = NoFan
  /\ extract = NoExtract

(* ---------------- SyncWorker.run: a pass starts ---------------- *)
CacheAges == { 1, 25 }

StartPass ==
  /\ pc = "idle"
  /\ pass < MaxPasses
  /\ pass' = pass + 1
  /\ pc' = "check_ffmpeg"
  /\ cat' \in (IF pass = 0 THEN Catalogs ELSE NextCatalogs(cat))
  /\ cacheAge' \in (IF cacheAge = -1 THEN { -1 } ELSE CacheAges)
  /\ fetches' = 0
  /\ fetchFailed' = FALSE
  /\ data' = << >>
  /\ gamelist' = [gamelist EXCEPT !.written = FALSE]
  /\ valid_titles' = { }
  /\ files_created' = ZeroCreated
  /\ files_removed' = ZeroRemoved
  /\ error_message' = NoError
  /\ tpc' = << >>
  /\ vidx' = 0
  /\ transcoding' = { }
  /\ progress' = << >>
  /\ signal' = "none"
  /\ disk0' = disk
  /\ dirs0' = dirs
  /\ overwritten' = { }
  /\ prev' = IF pass > 0 /\ error_message = NoError
             THEN [ran |-> TRUE, cat |-> data, ok |-> TRUE]
             ELSE [ran |-> pass > 0, cat |-> << >>, ok |-> FALSE]
  /\ UNCHANGED << payload, dirs, disk, fan, extract >>

(* except Exception as e: error_message = str(e), then the finally block *)
Fail(msg) ==
  /\ error_message' = msg
  /\ pc' = "finally"

Report(v) == progress' = Append(progress, << v, 1 >>)

(* check_ffmpeg(), progress_callback(0) *)
CheckFfmpeg ==
  /\ pc = "check_ffmpeg"
  /\ \E found \in BOOLEAN :
       IF found
       THEN /\ pc' = "fetch_ids"
            /\ Report(0)
            /\ UNCHANGED error_message
       ELSE /\ Fail("ffmpeg is not installed")
            /\ UNCHANGED progress
  /\ UNCHANGED << envVars, fsVars, countVars, taskVars, videoVars, histVars, signal, fan, extract >>

(* fetch_ids(): one GET to the discovery endpoint *)
FetchIds ==
  /\ pc = "fetch_ids"
  /\ fetches' = fetches + 1
  /\ \E ok \in BOOLEAN :
       IF ok
       THEN /\ pc' = "save_json"
            /\ UNCHANGED << error_message, fetchFailed >>
       ELSE /\ Fail("Error fetching IDs")
            /\ fetchFailed' = TRUE
  /\ UNCHANGED << cat, payload, cacheAge, fsVars, countVars, taskVars, videoVars,
                  histVars, progress, signal, fan, extract >>

(* SaveJson with the raise of line 114 left out: the failure is logged and main()
   goes on with the old additional_data.json *)
SaveJsonNoRaise ==
  /\ pc = "save_json"
  /\ fetches' = fetches + 1
  /\ \E ok \in BOOLEAN :
       /\ payload' = IF ok THEN cat ELSE payload
       /\ cacheAge' = IF ok THEN 0 ELSE cacheAge
       /\ fetchFailed' = ~ok
  /\ Report(5)
  /\ pc' = "makedirs"
  /\ UNCHANGED << cat, error_message, fsVars, countVars, taskVars, videoVars, histVars,
                  signal, fan, extract >>

(* save_additional_data_to_json(): one GET to the details endpoint, then the dump *)
SaveJson ==
  /\ pc = "save_json"
  /\ fetches' = fetches + 1
  /\ \E ok \in BOOLEAN :
       IF ok
       THEN /\ payload' = cat
            /\ cacheAge' = 0
            /\ Report(5)
            /\ pc' = "makedirs"
            /\ UNCHANGED << error_message, fetchFailed >>
       ELSE /\ Fail("Error fetching additional data")
            /\ fetchFailed' = TRUE
            /\ UNCHANGED << payload, cacheAge, progress >>
  /\ UNCHANGED << cat, fsVars, countVars, taskVars, videoVars, histVars, signal, fan, extract >>

(* the five os.makedirs(..., exist_ok=True) calls, in their order *)
DirOrder == << "output_dir", "marquee_dir", "cover_dir", "video_dir", "fanart_dir" >>

MakeDirs ==
  /\ pc = "makedirs"
  /\ \E n \in 0..Len(DirOrder) :
       /\ dirs' = dirs \cup { DirOrder[k] : k \in 1..n }
       /\ IF n = Len(DirOrder)
          THEN /\ pc' = "load_json"
               /\ UNCHANGED error_message
          ELSE /\ DirOrder[n + 1] \notin dirs
               /\ Fail("cannot create directory")
  /\ UNCHANGED << envVars, disk, gamelist, overwritten, countVars, taskVars, videoVars,
                  histVars, progress, signal, fan, extract >>

(* ---------------- process_entry ---------------- *)
Slots == << "marquee_dir", "cover_dir", "fanart_dir" >>

SlotIndex(dir) == CHOOSE k \in DOMAIN Slots : Slots[k] = dir

(* the source URI of a slot: logo_url, else poster_url, for the logo; None is NoUrl *)
UrlFor(entry, dir) ==
  CASE dir = "marquee_dir" -> IF entry.Logo # NoUrl THEN entry.Logo ELSE entry.Poster
    [] dir = "cover_dir" -> entry.Poster
    [] dir = "fanart_dir" -> entry.TitledHeroArt

At(a, dir) == [at |-> a, dir |-> dir]

Terminal == { "done", "failed", "cancelled" }

(* NextImage without the os.path.exists tests *)
NextImageNoCheck(entry, k, d) ==
  LET wanted == { j \in k..Len(Slots) : UrlFor(entry, Slots[j]) # NoUrl }
  IN IF wanted = { }
     THEN [at |-> "done", dir |-> "-"]
     ELSE [at |-> "get", dir |-> Slots[CHOOSE j \in wanted : \A m \in wanted : j <= m]]

(* from slot k on, the first image the task awaits: a slot with a URI and no file *)
NextImage(entry, k, d) ==
  LET key == Sanitize(entry.ProductTitle)
      wanted == { j \in k..Len(Slots) :
                    /\ UrlFor(entry, Slots[j]) # NoUrl
                    /\ ~Exists(d, PathOf(Slots[j], key)) }
  IN IF wanted = { }
     THEN At("done", "-")
     ELSE At("get", Slots[CHOOSE j \in wanted : \A m \in wanted : j <= m])

Bump(counter, type) == [counter EXCEPT ![type] = @ + 1]

(* json.loads of additional_data.json, the loop building the coroutines with its
   progress reports, up to the await of asyncio.gather *)
SpawnReports(total) ==
  [idx \in 1..total |-> << 5 * total + 40 * idx, total >>]

LoadAndSpawn ==
  /\ pc = "load_json"
  /\ data' = payload
  /\ tpc' = [i \in 1..Len(payload) |-> At("new", "-")]
  /\ progress' = progress \o SpawnReports(Len(payload))
  /\ pc' = "gather"
  /\ UNCHANGED << envVars, fsVars, countVars, valid_titles, videoVars, histVars,
                  error_message, signal, fan, extract >>

(* the tasks run while main() is suspended at an await *)
TasksRun == pc \in { "gather", "gamelist", "finally" }

(* lines 126-132 and, when the script exists, on to the first awaited image *)
TaskStart(i) ==
  /\ pc = "gather"
  /\ tpc[i].at = "new"
  /\ \A j \in 1..(i - 1) : tpc[j].at # "new"
  /\ IF data[i].ProductTitle = NullTitle
     THEN /\ tpc' = [tpc EXCEPT ![i] = At("failed", "-")]
          /\ UNCHANGED valid_titles
     ELSE LET key == Sanitize(data[i].ProductTitle)
          IN /\ valid_titles' = valid_titles \cup { key }
             /\ tpc' = [tpc EXCEPT ![i] =
                          IF Exists(disk, PathOf("output_dir", key))
                          THEN NextImage(data[i], 1, disk)
                          ELSE At("sh_open", "output_dir")]
  /\ UNCHANGED << pc, envVars, fsVars, countVars, data, videoVars, histVars,
                  error_message, progress, signal, fan, extract >>

(* open(path, "w"/"wb"): the file is created, or truncated when it is there *)
OpenForWrite(path) ==
  /\ disk' = [disk EXCEPT ![path] = "empty"]
  /\ overwritten' = IF Exists(disk, path) THEN overwritten \cup { path } ELSE overwritten

(* aio_open(file_path, "w"): may raise OSError *)
ScriptOpen(i) ==
  /\ TasksRun
  /\ tpc[i].at = "sh_open"
  /\ \E ok \in BOOLEAN :
       IF ok
       THEN /\ OpenForWrite(PathOf("output_dir", Sanitize(data[i].ProductTitle)))
            /\ tpc' = [tpc EXCEPT ![i] = At("sh_w1", "output_dir")]
       ELSE /\ tpc' = [tpc EXCEPT ![i] = At("failed", "-")]
            /\ UNCHANGED << disk, overwritten >>
  /\ UNCHANGED << pc, envVars, dirs, gamelist, countVars, data, valid_titles, videoVars,
                  histVars, error_message, progress, signal, fan, extract >>

(* the two sh_file.write calls *)
ScriptWrite(i) ==
  /\ TasksRun
  /\ tpc[i].at \in { "sh_w1", "sh_w2" }
  /\ LET path == PathOf("output_dir", Sanitize(data[i].ProductTitle))
     IN IF tpc[i].at = "sh_w1"
        THEN /\ disk' = [disk EXCEPT ![path] = "partial"]
             /\ tpc' = [tpc EXCEPT ![i] = At("sh_w2", "output_dir")]
        ELSE /\ disk' = [disk EXCEPT ![path] = "full"]
             /\ tpc' = [tpc EXCEPT ![i] = At("sh_close", "output_dir")]
  /\ UNCHANGED << pc, envVars, dirs, gamelist, overwritten, countVars, data, valid_titles,
                  videoVars, histVars, error_message, progress, signal, fan, extract >>

(* the file is closed; os.chmod, files_created["sh"] += 1, on to the images *)
ScriptClose(i) ==
  /\ TasksRun
  /\ tpc[i].at = "sh_close"
  /\ files_created' = Bump(files_created, "sh")
  /\ tpc' = [tpc EXCEPT ![i] = NextImage(data[i], 1, disk)]
  /\ UNCHANGED << pc, envVars, fsVars, files_removed, data, valid_titles, videoVars,
                  histVars, error_message, progress, signal, fan, extract >>

(* ImageResponse with a non-200 answer raised as an error of the task *)
ImageResponseRaises(i) ==
  /\ TasksRun
  /\ tpc[i].at = "get"
  /\ tpc' = [tpc EXCEPT ![i] =
               IF UrlFor(data[i], tpc[i].dir) = Url200
               THEN At("open", tpc[i].dir)
               ELSE At("failed", "-")]
  /\ UNCHANGED << pc, envVars, fsVars, countVars, data, valid_titles, videoVars,
                  histVars, error_message, progress, signal, fan, extract >>

(* download_image: the answer to session.get; after a non-200 answer the caller
   still counts the slot *)
ImageResponse(i) ==
  /\ TasksRun
  /\ tpc[i].at = "get"
  /\ LET dir == tpc[i].dir
     IN IF UrlFor(data[i], dir) = Url200
        THEN /\ tpc' = [tpc EXCEPT ![i] = At("open", dir)]
             /\ UNCHANGED files_created
        ELSE /\ files_created' = Bump(files_created, CounterOf(dir))
             /\ tpc' = [tpc EXCEPT ![i] = NextImage(data[i], SlotIndex(dir) + 1, disk)]
  /\ UNCHANGED << pc, envVars, fsVars, files_removed, data, valid_titles, videoVars,
                  histVars, error_message, progress, signal, fan, extract >>

(* download_image: aio_open(path, "wb") *)
ImageOpen(i) ==
  /\ TasksRun
  /\ tpc[i].at = "open"
  /\ OpenForWrite(PathOf(tpc[i].dir, Sanitize(data[i].ProductTitle)))
  /\ tpc' = [tpc EXCEPT ![i] = At("write", tpc[i].dir)]
  /\ UNCHANGED << pc, envVars, dirs, gamelist, countVars, data, valid_titles, videoVars,
                  histVars, error_message, progress, signal, fan, extract >>

(* download_image: f.write(content), the close, and the caller's counter *)
ImageWrite(i) ==
  /\ TasksRun
  /\ tpc[i].at = "write"
  /\ LET dir == tpc[i].dir
         newDisk == [disk EXCEPT ![PathOf(dir, Sanitize(data[i].ProductTitle))] = "full"]
     IN /\ disk' = newDisk
        /\ files_created' = Bump(files_created, CounterOf(dir))
        /\ tpc' = [tpc EXCEPT ![i] = NextImage(data[i], SlotIndex(dir) + 1, newDisk)]
  /\ UNCHANGED << pc, envVars, dirs, gamelist, overwritten, files_removed, data,
                  valid_titles, videoVars, histVars, error_message, progress, signal, fan, extract >>

TaskStep(i) ==
  \/ TaskStart(i)
  \/ ScriptOpen(i)
  \/ ScriptWrite(i)
  \/ ScriptClose(i)
  \/ ImageResponse(i)
  \/ ImageOpen(i)
  \/ ImageWrite(i)

(* GatherDone that does not wait for the tasks to end *)
GatherDoneEarly ==
  /\ pc = "gather"
  /\ \A i \in DOMAIN tpc : tpc[i].at # "new"
  /\ pc' = "gamelist"
  /\ UNCHANGED << envVars, fsVars, countVars, taskVars, videoVars, histVars,
                  error_message, progress, signal, fan, extract >>

(* await asyncio.gather over the tasks: returns when every task is done, raises the first
   exception of a task; the session is closed on the way out *)
GatherDone ==
  /\ pc = "gather"
  /\ \A i \in DOMAIN tpc : tpc[i].at = "done"
  /\ pc' = "gamelist"
  /\ UNCHANGED << envVars, fsVars, countVars, taskVars, videoVars, histVars,
                  error_message, progress, signal, fan, extract >>

(* GatherRaise with the exceptions of the tasks collected instead of raised
   (return_exceptions=True): main() goes on to the gamelist *)
GatherRaiseSwallowed ==
  /\ pc = "gather"
  /\ \E i \in DOMAIN tpc : tpc[i].at = "failed"
  /\ \A i \in DOMAIN tpc : tpc[i].at \in { "done", "failed" }
  /\ pc' = "gamelist"
  /\ UNCHANGED << envVars, fsVars, countVars, taskVars, videoVars, histVars,
                  error_message, progress, signal, fan, extract >>

GatherRaise ==
  /\ pc = "gather"
  /\ \E i \in DOMAIN tpc : tpc[i].at = "failed"
  /\ \A i \in DOMAIN tpc : tpc[i].at # "new"
  /\ Fail("a process_entry task raised")
  /\ UNCHANGED << envVars, fsVars, countVars, taskVars, videoVars, histVars,
                  progress, signal, fan, extract >>

(* ---------------- generate_gamelist ---------------- *)
AsciiOrder ==
  << "." >> \o << "0", "1", "2", "3", "4", "5", "6", "7", "8", "9" >> \o Upper \o Lower

Ord(c) == CHOOSE i \in DOMAIN AsciiOrder : AsciiOrder[i] = c

ExtChars(ext) ==
  CASE ext = "sh" -> << "s", "h" >>
    [] ext = "png" -> << "p", "n", "g" >>
    [] ext = "mp4" -> << "m", "p", "4" >>
    [] ext = "txt" -> << "t", "x", "t" >>
    [] ext = "jpg" -> << "j", "p", "g" >>

FileName(path) == path[2] \o << "." >> \o ExtChars(path[3])

RECURSIVE LexLess(_, _)
LexLess(a, b) ==
  IF a = << >> THEN b # << >>
  ELSE IF b = << >> THEN FALSE
  ELSE IF Head(a) = Head(b) THEN LexLess(Tail(a), Tail(b))
  ELSE Ord(Head(a)) < Ord(Head(b))

RECURSIVE Sorted(_)
Sorted(names) ==
  IF names = { } THEN << >>
  ELSE LET least == CHOOSE n \in names : \A m \in names \ { n } : LexLess(n, m)
       IN << least >> \o Sorted(names \ { least })

ListDir(d, dir) == { p \in Paths : p[1] = dir /\ Exists(d, p) }

(* endswith(".sh"), endswith(".png") *)
EndsWith(path, ext) == path[3] = ext

(* metadata_dict[sanitized_title] = entry, for the entries in order *)
MetadataDict(recs) ==
  [key \in { Sanitize(recs[i].ProductTitle) : i \in DOMAIN recs } |->
     LET hits == { i \in DOMAIN recs : Sanitize(recs[i].ProductTitle) = key }
     IN recs[CHOOSE i \in hits : \A j \in hits : j <= i]]

(* GameEntries without the endswith(".sh") test: every file of output_dir is listed *)
GameEntriesAllFiles(d, recs) ==
  LET meta == MetadataDict(recs)
      names == Sorted({ FileName(p) : p \in ListDir(d, "output_dir") })
  IN [k \in DOMAIN names |->
        LET key == SubSeq(names[k], 1, Len(names[k]) - 3)
        IN [path |-> names[k],
            name |-> IF key \in DOMAIN meta THEN meta[key].ProductTitle ELSE key]]

GameEntries(d, recs) ==
  LET meta == MetadataDict(recs)
      names == Sorted({ FileName(p) : p \in ListDir(d, "output_dir") })
      shNames == SelectSeq(names, LAMBDA n :
                   \E p \in ListDir(d, "output_dir") : FileName(p) = n /\ EndsWith(p, "sh"))
  IN [k \in DOMAIN shNames |->
        LET key == SubSeq(shNames[k], 1, Len(shNames[k]) - 3)
        IN [path |-> shNames[k],
            name |-> IF key \in DOMAIN meta THEN meta[key].ProductTitle ELSE key]]

(* lines 267-279: the lookup table, os.makedirs(gamelist_dir), generate_gamelist *)
Gamelist ==
  /\ pc = "gamelist"
  /\ \E ok \in BOOLEAN :
       IF ok
       THEN /\ dirs' = dirs \cup { "gamelist_dir" }
            /\ gamelist' = [written |-> TRUE, games |-> GameEntries(disk, data)]
            /\ progress' = progress \o << << 50, 1 >>, << 60, 1 >> >>
            /\ vidx' = 1
            /\ pc' = "videos"
            /\ UNCHANGED error_message
       ELSE /\ Fail("cannot write gamelist.xml")
            /\ UNCHANGED << dirs, gamelist, progress, vidx >>
  /\ UNCHANGED << envVars, disk, overwritten, countVars, taskVars, transcoding,
                  histVars, signal, fan, extract >>

(* ---------------- the video loop, lines 281-292 ---------------- *)
VideoReport == << 60 * Len(data) + 30 * vidx, Len(data) >>

VideoNext ==
  /\ pc = "videos"
  /\ transcoding = { }
  /\ IF vidx > Len(data)
     THEN /\ pc' = "prune"
          /\ UNCHANGED << vidx, transcoding, progress >>
     ELSE IF /\ data[vidx].DASH # NoUrl
             /\ ~Exists(disk, PathOf("video_dir", Sanitize(data[vidx].ProductTitle)))
     THEN /\ transcoding' = { vidx }
          /\ UNCHANGED << pc, vidx, progress >>
     ELSE /\ vidx' = vidx + 1
          /\ progress' = Append(progress, VideoReport)
          /\ UNCHANGED << pc, transcoding >>
  /\ UNCHANGED << envVars, fsVars, countVars, taskVars, histVars, error_message,
                  signal, fan, extract >>

(* VideoFinish with a failed transcode raised to main() (subprocess.run with
   check=True and no except clause in download_video) *)
VideoFinishRaises ==
  /\ pc = "videos"
  /\ vidx \in transcoding
  /\ LET path == PathOf("video_dir", Sanitize(data[vidx].ProductTitle))
     IN IF data[vidx].DASH = DashOk
        THEN /\ disk' = [disk EXCEPT ![path] = "full"]
             /\ overwritten' =
                  IF Exists(disk, path) THEN overwritten \cup { path } ELSE overwritten
             /\ files_created' = Bump(files_created, "video")
             /\ vidx' = vidx + 1
             /\ progress' = Append(progress, VideoReport)
             /\ UNCHANGED << pc, error_message >>
        ELSE /\ Fail("ffmpeg failed")
             /\ UNCHANGED << disk, overwritten, files_created, vidx, progress >>
  /\ transcoding' = transcoding \ { vidx }
  /\ UNCHANGED << envVars, dirs, gamelist, files_removed, taskVars,
                  histVars, signal, fan, extract >>

(* download_video returns: ffmpeg wrote the file and exited 0, or exited non-zero
   on a manifest it cannot read *)
VideoFinish ==
  /\ pc = "videos"
  /\ vidx \in transcoding
  /\ LET path == PathOf("video_dir", Sanitize(data[vidx].ProductTitle))
     IN IF data[vidx].DASH = DashOk
        THEN /\ disk' = [disk EXCEPT ![path] = "full"]
             /\ overwritten' =
                  IF Exists(disk, path) THEN overwritten \cup { path } ELSE overwritten
             /\ files_created' = Bump(files_created, "video")
        ELSE UNCHANGED << disk, overwritten, files_created >>
  /\ transcoding' = transcoding \ { vidx }
  /\ vidx' = vidx + 1
  /\ progress' = Append(progress, VideoReport)
  /\ UNCHANGED << pc, envVars, dirs, gamelist, files_removed, taskVars,
                  histVars, error_message, signal, fan, extract >>

(* ---------------- the pruning sweep, lines 294-327 ---------------- *)
(* Doomed with the file name compared before its extension is stripped *)
DoomedUnstripped(d, dir, valid) ==
  { p \in ListDir(d, dir) : EndsWith(p, ExtOf(dir)) /\ FileName(p) \notin valid }

(* the files of a directory with the expected extension whose stem is no valid title *)
Doomed(d, dir, valid) ==
  { p \in ListDir(d, dir) : EndsWith(p, ExtOf(dir)) /\ p[2] \notin valid }

AllDoomed(d, valid) == UNION { Doomed(d, dir, valid) : dir \in PrunedDirs }

Prune ==
  /\ pc = "prune"
  /\ disk' = [p \in Paths |-> IF p \in AllDoomed(disk, valid_titles) THEN "none" ELSE disk[p]]
  /\ files_removed' =
       [t \in DOMAIN files_removed |->
          files_removed[t]
            + Cardinality(UNION { Doomed(disk, dir, valid_titles) :
                                    dir \in { x \in PrunedDirs : CounterOf(x) = t } })]
  /\ Report(95)
  /\ pc' = "finally"
  /\ UNCHANGED << envVars, dirs, gamelist, overwritten, files_created, taskVars, videoVars,
                  histVars, error_message, signal, fan, extract >>

(* ---------------- the finally block, lines 333-355 ---------------- *)
(* str(e) of the inner except clause, kept when no error was recorded before *)
CleanupError(raised) ==
  IF raised /\ error_message = NoError THEN "Error during cleanup" ELSE error_message

(* Cleanup with progress_callback(100) moved into the try block, after the wait: an
   exception of the cleanup skips it *)
CleanupReportInTry ==
  /\ pc = "finally"
  /\ tpc' = [i \in DOMAIN tpc |->
               IF tpc[i].at \in Terminal THEN tpc[i] ELSE At("cancelled", "-")]
  /\ \E raised \in BOOLEAN :
       /\ error_message' = CleanupError(raised)
       /\ IF raised THEN UNCHANGED progress ELSE Report(100)
  /\ pc' = "returned"
  /\ UNCHANGED << envVars, fsVars, countVars, data, valid_titles, videoVars, histVars,
                  signal, fan, extract >>

(* the pending tasks are cancelled; an exception of the try block is caught and
   recorded; progress_callback(100) follows in either case *)
Cleanup ==
  /\ pc = "finally"
  /\ tpc' = [i \in DOMAIN tpc |->
               IF tpc[i].at \in Terminal THEN tpc[i] ELSE At("cancelled", "-")]
  /\ \E raised \in BOOLEAN : error_message' = CleanupError(raised)
  /\ Report(100)
  /\ pc' = "returned"
  /\ UNCHANGED << envVars, fsVars, countVars, data, valid_titles, videoVars, histVars,
                  signal, fan, extract >>

(* ---------------- SyncWorker.run, lines 380-393 ---------------- *)
Emit ==
  /\ pc \in { "returned", "raised" }
  /\ signal' = IF pc = "raised" THEN "error" ELSE "finished"
  /\ pc' = "idle"
  /\ UNCHANGED << envVars, fsVars, countVars, taskVars, videoVars, histVars,
                  error_message, progress, fan, extract >>

Next ==
  \/ StartPass
  \/ CheckFfmpeg
  \/ FetchIds
  \/ SaveJson
  \/ MakeDirs
  \/ LoadAndSpawn
  \/ \E i \in DOMAIN tpc : TaskStep(i)
  \/ GatherDone
  \/ GatherRaise
  \/ Gamelist
  \/ VideoNext
  \/ VideoFinish
  \/ Prune
  \/ Cleanup
  \/ Emit

Spec == Init /\ [][Next]_vars

(* the event loop runs whatever is ready: main() and the tasks keep taking steps *)
SpecLive == Init /\ [][Next]_vars /\ WF_vars(Next)

(* ---------------- the download stage at scale ---------------- *)
(* The tasks of a catalog of fan.n records with distinct keys, each with its script
   on disk and one image to fetch, counted by position: created and not yet at
   session.get, with the request outstanding, and settled. *)
mainVars == << pass, pc, cat, payload, cacheAge, fetches, fetchFailed, data, dirs, disk,
               gamelist, valid_titles, files_created, files_removed, error_message, tpc,
               vidx, transcoding, progress, signal, disk0, dirs0, overwritten, prev,
               extract >>

InitFan ==
  /\ pass = 1
  /\ pc = "gather"
  /\ cat = << >>
  /\ payload = << >>
  /\ cacheAge = 0
  /\ fetches = 2
  /\ fetchFailed = FALSE
  /\ data = << >>
  /\ disk = EmptyDisk
  /\ dirs = Dirs
  /\ gamelist = [written |-> FALSE, games |-> << >>]
  /\ valid_titles = { }
  /\ files_created = ZeroCreated
  /\ files_removed = ZeroRemoved
  /\ error_message = NoError
  /\ tpc = << >>
  /\ vidx = 0
  /\ transcoding = { }
  /\ progress = << >>
  /\ signal = "none"
  /\ disk0 = disk
  /\ dirs0 = dirs
  /\ overwritten = { }
  /\ prev = [ran |-> FALSE, cat |-> << >>, ok |-> FALSE]
  /\ \E n \in 0..MaxFan : fan = [n |-> n, created |-> n, inflight |-> 0, settled |-> 0]
  /\ extract = NoExtract

(* a task runs from its start to session.get: nothing limits how many do *)
FanStart ==
  /\ fan.created > 0
  /\ fan' = [fan EXCEPT !.created = @ - 1, !.inflight = @ + 1]
  /\ UNCHANGED mainVars

(* the answer arrives and the task goes on to its end *)
FanResponse ==
  /\ fan.inflight > 0
  /\ fan' = [fan EXCEPT !.inflight = @ - 1, !.settled = @ + 1]
  /\ UNCHANGED mainVars

NextFan == FanStart \/ FanResponse

SpecFan == InitFan /\ [][NextFan]_vars

(* ---------------- one pass over a longer catalog ---------------- *)
(* Records without a title and without images, with or without a video manifest
   that ffmpeg cannot read; their script is on disk, so that a task ends where it
   starts and the pass is main()'s own sequence of steps. *)
PlainRecords ==
  { Rec(<< >>, NoUrl, NoUrl, NoUrl, NoUrl), Rec(<< >>, NoUrl, NoUrl, NoUrl, DashFail) }

PlainCatalogs == SeqsUpTo(PlainRecords, MaxTotal)

ScriptedDisk ==
  [p \in Paths |-> IF p = PathOf("output_dir", << >>) THEN "full" ELSE "none"]

InitReport ==
  /\ pass = 1
  /\ pc = "check_ffmpeg"
  /\ cat \in PlainCatalogs
  /\ payload = << >>
  /\ cacheAge = -1
  /\ fetches = 0
  /\ fetchFailed = FALSE
  /\ data = << >>
  /\ disk = ScriptedDisk
  /\ dirs = Dirs
  /\ gamelist = [written |-> FALSE, games |-> << >>]
  /\ valid_titles = { }
  /\ files_created = ZeroCreated
  /\ files_removed = ZeroRemoved
  /\ error_message = NoError
  /\ tpc = << >>
  /\ vidx = 0
  /\ transcoding = { }
  /\ progress = << >>
  /\ signal = "none"
  /\ disk0 = disk
  /\ dirs0 = dirs
  /\ overwritten = { }
  /\ prev = [ran |-> FALSE, cat |-> << >>, ok |-> FALSE]
  /\ fan = NoFan
  /\ extract = NoExtract

NextReport ==
  \/ CheckFfmpeg
  \/ FetchIds
  \/ SaveJson
  \/ MakeDirs
  \/ LoadAndSpawn
  \/ \E i \in DOMAIN tpc : TaskStart(i)
  \/ GatherDone
  \/ Gamelist
  \/ VideoNext
  \/ VideoFinish
  \/ Prune
  \/ Cleanup
  \/ Emit

SpecReport == InitReport /\ [][NextReport]_vars

(* ---------------- save_additional_data_to_json: the images of one product ---------------- *)
Purposes == { "Logo", "Poster", "BoxArt", "TitledHeroArt", "SuperHeroArt", "Screenshot" }

(* the Images list of a product; the Uri of an image is its place in the list *)
ImageLists ==
  { [i \in DOMAIN ps |-> [ImagePurpose |-> ps[i], Uri |-> i]] :
      ps \in SeqsUpTo(Purposes, MaxImages) }

(* images[key] = uri *)
Put(images, key, uri) == (key :> uri) @@ images

(* ExtractStep with the SuperHeroArt branch not testing titled_hero_found *)
ExtractStepNoFlag(images, found, image) ==
  LET purpose == image.ImagePurpose
  IN CASE purpose \in { "Logo", "Poster", "BoxArt" } ->
            [out |-> Put(images, purpose, image.Uri), found |-> found]
       [] purpose = "TitledHeroArt" ->
            [out |-> Put(images, "TitledHeroArt", image.Uri), found |-> TRUE]
       [] purpose = "SuperHeroArt" ->
            [out |-> Put(images, "TitledHeroArt", image.Uri), found |-> found]
       [] OTHER -> [out |-> images, found |-> found]

(* one iteration of the loop of lines 87-95 *)
ExtractStep(images, found, image) ==
  LET purpose == image.ImagePurpose
  IN CASE purpose \in { "Logo", "Poster", "BoxArt" } ->
            [out |-> Put(images, purpose, image.Uri), found |-> found]
       [] purpose = "TitledHeroArt" ->
            [out |-> Put(images, "TitledHeroArt", image.Uri), found |-> TRUE]
       [] purpose = "SuperHeroArt" /\ ~found ->
            [out |-> Put(images, "TitledHeroArt", image.Uri), found |-> found]
       [] OTHER -> [out |-> images, found |-> found]

InitExtract ==
  /\ pass = 1
  /\ pc = "save_json"
  /\ cat = << >>
  /\ payload = << >>
  /\ cacheAge = -1
  /\ fetches = 1
  /\ fetchFailed = FALSE
  /\ data = << >>
  /\ disk = EmptyDisk
  /\ dirs = { }
  /\ gamelist = [written |-> FALSE, games |-> << >>]
  /\ valid_titles = { }
  /\ files_created = ZeroCreated
  /\ files_removed = ZeroRemoved
  /\ error_message = NoError
  /\ tpc = << >>
  /\ vidx = 0
  /\ transcoding = { }
  /\ progress = << << 0, 1 >> >>
  /\ signal = "none"
  /\ disk0 = disk
  /\ dirs0 = dirs
  /\ overwritten = { }
  /\ prev = [ran |-> FALSE, cat |-> << >>, ok |-> FALSE]
  /\ fan = NoFan
  /\ extract \in { ExtractOf(list) : list \in ImageLists }

ExtractNext ==
  /\ extract.idx <= Len(extract.images)
  /\ LET step == ExtractStep(extract.out, extract.found, extract.images[extract.idx])
     IN extract' = [extract EXCEPT !.idx = @ + 1, !.out = step.out, !.found = step.found]
  /\ UNCHANGED << pc, envVars, fsVars, countVars, taskVars, videoVars, histVars,
                  error_message, progress, signal, fan >>

NextExtract == ExtractNext

SpecExtract == InitExtract /\ [][NextExtract]_vars

(* ---------------- properties ---------------- *)
PassOver == pass > 0 /\ pc \in { "finally", "returned", "idle" }

CleanPass == PassOver /\ error_message = NoError

(* the keys of a catalog, derived record by record *)
CatalogKeys(recs) == { Sanitize(recs[i].ProductTitle) : i \in DOMAIN recs }

Prunable(dir) == { p \in Paths : p[1] = dir /\ p[3] = ExtOf(dir) }

Deleted(dir) == { p \in Prunable(dir) : Exists(disk0, p) /\ ~Exists(disk, p) }

(* C1: after a pass without fatal error, a file of a pruned directory that was there
   before the pass is gone exactly when its key is not a key of the catalog, and
   files_removed counts the deleted files of each type. *)
PruningExact ==
  CleanPass =>
    \A dir \in PrunedDirs :
      /\ \A p \in Prunable(dir) :
           Exists(disk0, p) => (~Exists(disk, p) <=> p[2] \notin CatalogKeys(cat))
      /\ files_removed[CounterOf(dir)] = Cardinality(Deleted(dir))

PruningExactWitness ==
  /\ CleanPass
  /\ files_removed["sh"] > 0
  /\ files_removed["fanart"] > 0
  /\ \E p \in Prunable("marquee_dir") : Exists(disk0, p) /\ Exists(disk, p)

(* C2: a second pass over the catalog of a first pass, both without fatal error,
   leaves the disk as it found it and reports zero in every counter. *)
SecondPassIdle ==
  (CleanPass /\ prev.ok /\ prev.cat = data) =>
    /\ disk = disk0
    /\ files_created = ZeroCreated
    /\ files_removed = ZeroRemoved

(* C3: no path is opened for writing while a file is there (as claimed: for every
   catalog, also one with two records of one key). *)
NeverOverwritten == overwritten = { }

DistinctKeys(recs) ==
  \A i, j \in DOMAIN recs :
    i # j => Sanitize(recs[i].ProductTitle) # Sanitize(recs[j].ProductTitle)

(* C3, amended: when no two records of the catalog derive the same key, no path is
   opened for writing while a file is there. *)
NeverOverwrittenDistinctKeys == DistinctKeys(data) => overwritten = { }

NeverOverwrittenWitness ==
  /\ DistinctKeys(data)
  /\ \E i \in DOMAIN tpc :
       /\ tpc[i].at = "write"
       /\ Exists(disk0, PathOf("output_dir", Sanitize(data[i].ProductTitle)))

(* C4: when fetch_ids or save_additional_data_to_json fails, the pass changes no
   file and no directory, deletes nothing and does not write the gamelist. *)
FetchFailureMutatesNothing ==
  fetchFailed =>
    /\ disk = disk0
    /\ dirs = dirs0
    /\ files_removed = ZeroRemoved
    /\ files_created = ZeroCreated
    /\ ~gamelist.written

FetchFailureWitness ==
  /\ fetchFailed
  /\ pc = "idle"
  /\ fetches = 2
  /\ cat # << >>
  /\ \E p \in Prunable("output_dir") : Exists(disk, p) /\ p[2] \notin CatalogKeys(cat)

ImageDirs == { "marquee_dir", "cover_dir", "fanart_dir" }

KeyAt(i) == Sanitize(data[i].ProductTitle)

(* the answer to a slot's request is a non-200 status *)
Refused(i, dir) == UrlFor(data[i], dir) = Url404

(* a non-200 answer writes nothing and fails neither the task nor the pass *)
RefusedStepHarmless ==
  \A i \in DOMAIN tpc :
    (tpc[i].at = "get" /\ Refused(i, tpc[i].dir) /\ tpc'[i] # tpc[i]) =>
      /\ tpc'[i].at # "failed"
      /\ disk' = disk
      /\ error_message' = error_message

(* at the end of a pass without fatal error: a refused slot has no file unless one
   was there or a record of the same key was served, and every script and every
   served image of every record is in place, complete when this pass made it *)
RefusedSlotsEmptyOthersMade ==
  CleanPass =>
    \A i \in DOMAIN data :
      /\ LET sh == PathOf("output_dir", KeyAt(i))
         IN Exists(disk, sh) /\ (~Exists(disk0, sh) => disk[sh] = "full")
      /\ \A dir \in ImageDirs :
           LET p == PathOf(dir, KeyAt(i))
           IN /\ UrlFor(data[i], dir) = Url200 =>
                   Exists(disk, p) /\ (~Exists(disk0, p) => disk[p] = "full")
              /\ ( /\ Refused(i, dir)
                   /\ ~Exists(disk0, p)
                   /\ \A j \in DOMAIN data : KeyAt(j) = KeyAt(i) => UrlFor(data[j], dir) # Url200 )
                 => ~Exists(disk, p)

(* C5: a non-200 answer for one image creates no file at its path and aborts neither
   its task nor the pass; every other script and image is still produced. *)
PartialFailureIsolated ==
  [][RefusedStepHarmless]_vars /\ []RefusedSlotsEmptyOthersMade

PartialFailureWitness ==
  /\ CleanPass
  /\ Len(data) = 2
  /\ \E i \in DOMAIN data :
       /\ Refused(i, "marquee_dir")
       /\ ~Exists(disk, PathOf("marquee_dir", KeyAt(i)))
       /\ ~Exists(disk0, PathOf("fanart_dir", KeyAt(i)))
       /\ disk[PathOf("fanart_dir", KeyAt(i))] = "full"
       /\ \E j \in DOMAIN data :
            /\ KeyAt(j) # KeyAt(i)
            /\ ~Exists(disk0, PathOf("cover_dir", KeyAt(j)))
            /\ disk[PathOf("cover_dir", KeyAt(j))] = "full"

(* C6: once SyncWorker.run has emitted, a pass that hit a fatal failure emitted error
   and not finished, and finished is emitted only for a pass without one. *)
FailedPassEmitsError ==
  signal # "none" => (signal = "error" <=> error_message # NoError)

(* C7: at the start of a pass the remote catalog is requested if and only if the
   cached payload is missing or at least 24 hours old. *)
RefetchOnlyWhenStale ==
  [][pc = "fetch_ids" =>
       (fetches' > fetches <=> (cacheAge = -1 \/ cacheAge >= 24))]_vars

(* C8: at every moment of the download stage at most 20 image requests are
   outstanding, whatever the number of records. *)
InflightWithinCeiling == fan.inflight <= 20

InProgress(i) == tpc[i].at \notin (Terminal \cup { "new" })

(* C9: a download_video call runs only when the process_entry task of every record
   is done, never beside a running process_entry, and at most 4 run at once. *)
VideoAfterDownloads ==
  /\ transcoding # { } =>
       /\ \A i \in DOMAIN tpc : tpc[i].at = "done"
       /\ DOMAIN tpc = DOMAIN data
  /\ ~(\E i \in DOMAIN tpc : InProgress(i) /\ transcoding # { })
  /\ Cardinality(transcoding) <= 4
  /\ (\E p \in Paths : p[1] = "video_dir" /\ disk[p] # disk0[p]) =>
       \A i \in DOMAIN tpc : tpc[i].at = "done"

VideoAfterDownloadsWitness ==
  /\ transcoding # { }
  /\ Len(data) = 2
  /\ files_created["sh"] = 2
  /\ files_created["poster"] > 0

(* C10: a script or image file at its final path is never empty or truncated. *)
FinalFilesComplete ==
  \A dir \in PrunedDirs : \A p \in Prunable(dir) : disk[p] \in { "none", "full" }

(* C10, at rest: the same once the pass is over, cancelled tasks included. *)
FinalFilesCompleteAfterPass ==
  (pc = "idle" /\ pass > 0) =>
    \A dir \in PrunedDirs : \A p \in Prunable(dir) : disk[p] \in { "none", "full" }

(* the open of a launch script raised in a task of this pass: the only failure of a
   task whose title is a string *)
ScriptWriteFailed ==
  \E i \in DOMAIN tpc : tpc[i].at = "failed" /\ data[i].ProductTitle # NullTitle

(* after the failure the pass has not generated the gamelist, transcoded or pruned,
   and every file that was there before the pass is still there *)
NothingRunsAfterScriptFailure ==
  ScriptWriteFailed =>
    /\ pc \in { "gather", "finally", "returned", "idle" }
    /\ ~gamelist.written
    /\ vidx = 0 /\ transcoding = { }
    /\ files_created["video"] = 0
    /\ files_removed = ZeroRemoved
    /\ \A p \in Paths : Exists(disk0, p) => Exists(disk, p)
    /\ \A p \in Paths : p[1] = "video_dir" => disk[p] = disk0[p]

(* after the failure no step of the pass removes a file *)
NothingDeletedAfterScriptFailure ==
  ScriptWriteFailed => \A p \in Paths : Exists(disk, p) => Exists(disk', p)

(* C11: when the write of a launch script fails in the download stage, the pass
   aborts: no gamelist generation, no transcode and no pruning follows, no file that
   was there is deleted, and the files written for other keys stay in place. *)
ScriptFailureAborts ==
  [][NothingDeletedAfterScriptFailure]_vars /\ []NothingRunsAfterScriptFailure

ScriptFailureAbortsWitness ==
  /\ ScriptWriteFailed
  /\ pc = "idle"
  /\ error_message # NoError
  /\ \E p \in Prunable("output_dir") : ~Exists(disk0, p) /\ disk[p] = "full"
  /\ \E p \in Prunable("output_dir") :
       Exists(disk0, p) /\ p[2] \notin CatalogKeys(data) /\ Exists(disk, p)

(* the values handed to progress_callback, as fractions *)
IsInteger(v) == v[1] % v[2] = 0

InRange(v) == 0 <= v[1] /\ v[1] <= 100 * v[2]

LessEq(u, v) == u[1] * v[2] <= v[1] * u[2]

(* C12: the values handed to progress_callback in a pass never decrease, and each
   is an integer between 0 and 100, on every path of the pass. *)
ProgressMonotoneIntegers ==
  \A k \in DOMAIN progress :
    /\ IsInteger(progress[k])
    /\ InRange(progress[k])
    /\ k > 1 => LessEq(progress[k - 1], progress[k])

(* C12, without the integers: the values never decrease and lie between 0 and 100. *)
ProgressMonotoneInRange ==
  \A k \in DOMAIN progress :
    /\ InRange(progress[k])
    /\ k > 1 => LessEq(progress[k - 1], progress[k])

(* the images the loop has gone through, and among them those of a purpose *)
Seen == SubSeq(extract.images, 1, extract.idx - 1)

UrisOf(purpose) == { Seen[i].Uri : i \in { j \in DOMAIN Seen : Seen[j].ImagePurpose = purpose } }

(* C13: whatever the order of a product's image list, the URI stored under
   TitledHeroArt is that of a TitledHeroArt image whenever the product has one, and
   that of a SuperHeroArt image only when it has no TitledHeroArt image at all. *)
FanartPrefersTitledHero ==
  /\ UrisOf("TitledHeroArt") # { } =>
       /\ "TitledHeroArt" \in DOMAIN extract.out
       /\ extract.out["TitledHeroArt"] \in UrisOf("TitledHeroArt")
  /\ (UrisOf("TitledHeroArt") = { } /\ UrisOf("SuperHeroArt") # { }) =>
       /\ "TitledHeroArt" \in DOMAIN extract.out
       /\ extract.out["TitledHeroArt"] \in UrisOf("SuperHeroArt")
  /\ (UrisOf("TitledHeroArt") = { } /\ UrisOf("SuperHeroArt") = { }) =>
       "TitledHeroArt" \notin DOMAIN extract.out

FanartPrefersTitledHeroWitness ==
  /\ extract.idx = Len(extract.images) + 1
  /\ Len(extract.images) = 3
  /\ extract.images[1].ImagePurpose = "SuperHeroArt"
  /\ extract.images[2].ImagePurpose = "TitledHeroArt"
  /\ extract.images[3].ImagePurpose = "SuperHeroArt"
  /\ extract.out["TitledHeroArt"] = 2

(* the key the reference normalizer gives a title: an empty or missing title counts
   as the literal "Unknown" *)
ReferenceKey(title) ==
  IF title \in { << >>, NullTitle }
  THEN Sanitize(<< "U", "n", "k", "n", "o", "w", "n" >>)
  ELSE Sanitize(title)

(* C14: key derivation never fails and gives the reference key: every task that has
   run its first lines has put the reference key of its record into valid_titles,
   be the title a string, empty or null. *)
KeyDerivationTotal ==
  \A i \in DOMAIN tpc :
    tpc[i].at # "new" => ReferenceKey(data[i].ProductTitle) \in valid_titles

(* the launch scripts on disk *)
Scripts == { p \in Prunable("output_dir") : Exists(disk, p) }

(* the records of the catalog whose key is key *)
Holders(key) == { i \in DOMAIN data : KeyAt(i) = key }

(* C15: the gamelist holds exactly one game record per *.sh file present when it is
   generated, in lexical order of the file names; the name of a record is the title
   of a catalog record whose key is the file's stem, and the bare key when there is
   none. (Until the pruning sweep the scripts on disk are those of generation time.) *)
GamelistMirrorsScripts ==
  (gamelist.written /\ pc \in { "videos", "prune" }) =>
    LET games == gamelist.games
    IN /\ Len(games) = Cardinality(Scripts)
       /\ { games[k].path : k \in DOMAIN games } = { FileName(p) : p \in Scripts }
       /\ \A k, l \in DOMAIN games : k < l => LexLess(games[k].path, games[l].path)
       /\ \A k \in DOMAIN games : \A p \in Scripts :
            FileName(p) = games[k].path =>
              IF Holders(p[2]) = { }
              THEN games[k].name = p[2]
              ELSE \E i \in Holders(p[2]) : games[k].name = data[i].ProductTitle

GamelistMirrorsScriptsWitness ==
  /\ gamelist.written
  /\ pc = "prune"
  /\ Len(gamelist.games) = 3
  /\ Exists(disk, << "output_dir", OrphanKey, "txt" >>)
  /\ \E k \in DOMAIN gamelist.games : gamelist.games[k].name = OrphanKey
  /\ \E k \in DOMAIN gamelist.games : gamelist.games[k].name = << "a" >>

(* the download_video call in progress ends in failure: ffmpeg exits non-zero *)
TranscodeFails == vidx \in transcoding /\ data[vidx].DASH = DashFail

(* the failed call is not counted, writes nothing, raises nothing, and the loop
   moves on to the next record *)
FailedTranscodeStep ==
  (TranscodeFails /\ transcoding' # transcoding) =>
    /\ files_created' = files_created
    /\ disk' = disk
    /\ error_message' = NoError
    /\ pc' = "videos"
    /\ vidx' = vidx + 1

(* the video loop went through every record: each manifest ffmpeg can read has its
   file, files_created["video"] counts the files made, and the sweep has run *)
VideoLoopCompleted ==
  (CleanPass /\ gamelist.written) =>
    /\ vidx = Len(data) + 1
    /\ \A i \in DOMAIN data :
         data[i].DASH = DashOk => disk[PathOf("video_dir", KeyAt(i))] = "full"
    /\ files_created["video"] =
         Cardinality({ p \in Paths : p[1] = "video_dir" /\ ~Exists(disk0, p) /\ Exists(disk, p) })
    /\ \A dir \in PrunedDirs : Doomed(disk, dir, valid_titles) = { }

(* C16: a transcode that ends non-zero for one key does not abort the pass: it is
   not counted in files_created["video"], the transcodes of the later records are
   still attempted, and the pruning sweep still runs. *)
FailedTranscodeIsolated ==
  [][FailedTranscodeStep]_vars /\ []VideoLoopCompleted

FailedTranscodeIsolatedWitness ==
  /\ CleanPass
  /\ Len(data) = 2
  /\ data[1].DASH = DashFail
  /\ ~Exists(disk, PathOf("video_dir", KeyAt(1)))
  /\ data[2].DASH = DashOk
  /\ ~Exists(disk0, PathOf("video_dir", KeyAt(2)))
  /\ disk[PathOf("video_dir", KeyAt(2))] = "full"
  /\ files_created["video"] = 1
  /\ files_removed["sh"] > 0

(* the files of a directory that were not there before the pass and are there now *)
Made(dir) == { p \in Prunable(dir) : ~Exists(disk0, p) /\ Exists(disk, p) }

(* C17: at the end of the download stage each of the counters sh, logo, poster and
   fanart equals the number of files of its type that were not there before the
   pass and are there now, whatever the mix of 200 and non-200 answers. *)
CreationCountersExact ==
  pc = "gamelist" =>
    \A dir \in PrunedDirs : files_created[CounterOf(dir)] = Cardinality(Made(dir))

(* the task has a file open for writing: between the open and the end of the close *)
Writing(i) == tpc[i].at \in { "sh_w1", "sh_w2", "sh_close", "write" }

OpenPath(i) == PathOf(tpc[i].dir, KeyAt(i))

(* C18: at no moment do two process_entry tasks have the same destination path open
   for writing (as claimed: for every catalog). *)
NoSharedOpenPath ==
  \A i, j \in DOMAIN tpc :
    (i # j /\ Writing(i) /\ Writing(j)) => OpenPath(i) # OpenPath(j)

(* C18, amended: when no two records of the catalog derive the same key, at no
   moment do two process_entry tasks have the same destination path open for
   writing. *)
NoSharedOpenPathDistinctKeys == DistinctKeys(data) => NoSharedOpenPath

NoSharedOpenPathWitness ==
  /\ DistinctKeys(data)
  /\ \E i, j \in DOMAIN tpc :
       /\ i # j
       /\ tpc[i].at = "write" /\ tpc[j].at = "write"
       /\ tpc[i].dir = tpc[j].dir

(* the script a game record of the gamelist refers to *)
ScriptOf(game) == PathOf("output_dir", SubSeq(game.path, 1, Len(game.path) - 3))

(* C19: after a pass without fatal error every game record of the gamelist refers
   to a script that still exists (as claimed). *)
GamelistRecordsHaveScripts ==
  (CleanPass /\ gamelist.written) =>
    \A k \in DOMAIN gamelist.games : Exists(disk, ScriptOf(gamelist.games[k]))

(* C19, what holds instead: after a pass without fatal error a game record of the
   gamelist refers to a script that still exists exactly when its key is a key of
   the catalog; the record of an orphan script, listed at generation time and
   deleted by the sweep of the same pass, stays in the gamelist. *)
GamelistRecordsDangleOnlyForOrphans ==
  (CleanPass /\ gamelist.written) =>
    \A k \in DOMAIN gamelist.games :
      LET script == ScriptOf(gamelist.games[k])
      IN Exists(disk, script) <=> script[2] \in CatalogKeys(data)

Videos == { p \in Paths : p[1] = "video_dir" }

(* C20: no step of a pass deletes a file of the videos directory: over any sequence
   of passes and catalogs a video file, once there, stays, also when its key has
   left the catalog. *)
VideosNeverDeleted ==
  [][\A p \in Videos : Exists(disk, p) => Exists(disk', p)]_vars

VideosNeverDeletedWitness ==
  /\ pass = 2
  /\ CleanPass
  /\ \E p \in Videos :
       /\ p[2] # OrphanKey
       /\ p[2] \notin CatalogKeys(data)
       /\ disk[p] = "full"
       /\ Exists(disk0, PathOf("output_dir", p[2]))
       /\ ~Exists(disk, PathOf("output_dir", p[2]))

IsHundred(v) == v[1] = 100 * v[2]

Hundreds == { k \in DOMAIN progress : IsHundred(progress[k]) }

(* main() has returned from the pass *)
Returned == pass > 0 /\ pc \in { "returned", "idle" }

(* while main() runs no 100 has been reported; once it has returned, 100 was
   reported exactly once, as the last value *)
HundredOnceAndLast ==
  IF Returned
  THEN Hundreds = { Len(progress) } /\ progress # << >>
  ELSE Hundreds = { }

(* C21: every pass ends its reporting with 100: on every path through main(), be it
   success, a failure before or after the first report, or a failure during the
   cleanup, progress_callback(100) is called exactly once and is the last value
   reported, and every started pass gets there. *)
PassEndsWithHundred ==
  []HundredOnceAndLast /\ ((pc = "check_ffmpeg") ~> Returned)

PassEndsWithHundredWitness ==
  /\ Returned
  /\ error_message = "Error during cleanup"
  /\ Len(progress) > 2
  /\ progress[Len(progress) - 1] = << 95, 1 >>
  /\ IsHundred(progress[Len(progress)])

====
